---- MODULE Spec2Model ----
(***************************************************************************)
(* Model of the MyWebOSC controller core:                                  *)
(*   - the client Connection Manager (hooks/useWebSocket.ts),              *)
(*   - the throttle utility (utils/throttle.ts),                           *)
(*   - the bridge relay (osc-bridge-server, the WebSocket-to-UDP bridge).  *)
(* Each component has its own specification over its own variables; the    *)
(* variables of the other components stay at their initial values.         *)
(***************************************************************************)
EXTENDS Integers, Sequences, FiniteSets, TLC

\* ------------------------------------------------------------------ bounds
\* WebSocket objects of one hook instance that exist at the same time, and
\* reconnect timers pending at the same time.
MaxSockets == 2
MaxTimers == 2
\* Value passed for the hook option `reconnectAttempts` (its default is 5).
reconnectAttempts == 2
\* Calls made to one throttled function in a run, and the clock's horizon.
MaxCalls == 4
MaxTime == 6
\* Largest `delay` a throttle instance is created with.
MaxDelay == 3
\* Horizon of the clock in the scripted scenario (calls at 0, 5 and 40, delay 20).
ScenarioHorizon == 100
\* Horizon of the clock under sustained calls (one call every millisecond).
SustainedHorizon == 24
\* Sessions the relay accepts in a run, and frames sent to it over all sessions.
MaxSessions == 2
MaxFrames == 4
\* Arguments of a message handed to the codec.
MaxArgs == 2
MaxSinkErrors == 1

\* ------------------------------------------------------- Connection Manager
VARIABLES
    status,                 \* useState<WebSocketStatus>
    ws,                     \* ws.current: 0 is null, else the id of a socket
    reconnectAttemptCount,  \* reconnectAttemptCount.current
    reconnectTimeoutId,     \* reconnectTimeoutId.current: 0 is null, else a timer id
    explicitlyClosed,       \* explicitlyClosed.current
    sockets,                \* the WebSocket objects whose close event is still to come:
                            \* url, readyState, whether the connection was established,
                            \* whether onopen has run, whether close() was called on it
    timers,                 \* the setTimeout callbacks still pending
    task,                   \* socket whose close event must follow its error event, or 0
    mounted,                \* the owning component has not been unmounted
    wire,                   \* outcome of the latest sendMessage call
    exhausted,              \* an unclean close hit the attempt limit since the last connect()
    userClosed              \* disconnect() was called since the last connect()

cmVars == <<status, ws, reconnectAttemptCount, reconnectTimeoutId, explicitlyClosed,
            sockets, timers, task, mounted, wire, exhausted, userClosed>>

WebSocketStatus == {"disconnected", "connecting", "connected", "error"}

\* URLs a caller may pass; BadUrl makes `new WebSocket(url)` throw.
GoodUrls == {"wss://a"}
BadUrl == "not-a-url"
Urls == GoodUrls \cup {BadUrl}

\* Close codes the transport can report: 1000 clean, 1001 going away,
\* 1006 abnormal (always preceded by an error event).
CleanCode == 1000
CloseCodes == {1000, 1001, 1006}

SocketIds == DOMAIN sockets
Live(s) == sockets[s].readyState \in {"CONNECTING", "OPEN", "CLOSING"}
LiveSockets == {s \in SocketIds : Live(s)}
IsOpen(s) == s \in SocketIds /\ sockets[s].readyState = "OPEN"

\* setStatus: React drops state updates of an unmounted component.
setStatus(v) == IF mounted THEN v ELSE status

\* clearReconnectTimeout: clearTimeout(reconnectTimeoutId.current); := null
clearReconnectTimeout == {t \in timers : t.id # reconnectTimeoutId}

\* ws.close(1000, ...): starts the closing handshake of a socket that is
\* connecting or open; no effect on one that is closing or closed.
closeSocket(s) ==
    IF s \in SocketIds /\ sockets[s].readyState \in {"CONNECTING", "OPEN"}
    THEN [sockets EXCEPT ![s].readyState = "CLOSING", ![s].closeCalled = TRUE]
    ELSE sockets

\* The identity of the next WebSocket object and of the next timer: the
\* smallest id that names no existing socket, resp. no pending timer and not
\* the id still held in reconnectTimeoutId.
freeSocket == CHOOSE i \in 1..(MaxSockets + 1) :
                  i \notin SocketIds /\ \A j \in 1..(i - 1) : j \in SocketIds
usedTimerIds == {t.id : t \in timers} \cup {reconnectTimeoutId}
freeTimer == CHOOSE i \in 1..(MaxTimers + 2) :
                 i \notin usedTimerIds /\ \A j \in 1..(i - 1) : j \in usedTimerIds

\* new WebSocket(url): a socket in state CONNECTING.
newSocket(url) ==
    [x \in SocketIds \cup {freeSocket} |->
        IF x = freeSocket
        THEN [url |-> url, readyState |-> "CONNECTING", wasOpen |-> FALSE, openFired |-> FALSE,
              closeCalled |-> FALSE]
        ELSE sockets[x]]

\* A socket whose close event has been delivered is dropped.
dropSocket(s) == [x \in SocketIds \ {s} |-> sockets[x]]

CMInit ==
    /\ status = "disconnected"
    /\ ws = 0
    /\ reconnectAttemptCount = 0
    /\ reconnectTimeoutId = 0
    /\ explicitlyClosed = FALSE
    /\ sockets = <<>>
    /\ timers = {}
    /\ task = 0
    /\ mounted = TRUE
    /\ wire = "none"
    /\ exhausted = FALSE
    /\ userClosed = FALSE

\* The body of connect(url) run by a closure that captured `st` as status,
\* with `pending` the timers pending when it runs.
connectBody(url, st, pending) ==
    IF IsOpen(ws) \/ st = "connecting"
    THEN /\ timers' = pending
         /\ UNCHANGED <<status, ws, reconnectTimeoutId, explicitlyClosed, sockets>>
    ELSE /\ timers' = {t \in pending : t.id # reconnectTimeoutId}
         /\ reconnectTimeoutId' = 0
         /\ explicitlyClosed' = FALSE
         /\ IF url = BadUrl
            THEN /\ status' = setStatus("error")
                 /\ UNCHANGED <<ws, sockets>>
            ELSE /\ Cardinality(SocketIds) < MaxSockets
                 /\ status' = setStatus("connecting")
                 /\ sockets' = newSocket(url)
                 /\ ws' = freeSocket

\* connect(url) called by the owner: the closure of the latest render.
connect(url) ==
    /\ mounted /\ task = 0
    /\ connectBody(url, status, timers)
    /\ exhausted' = FALSE
    /\ userClosed' = FALSE
    /\ UNCHANGED <<reconnectAttemptCount, task, mounted, wire>>

handleOpen(s) ==
    /\ status' = setStatus("connected")
    /\ reconnectAttemptCount' = 0
    /\ timers' = clearReconnectTimeout
    /\ reconnectTimeoutId' = 0
    /\ explicitlyClosed' = FALSE
    /\ UNCHANGED <<ws, task, mounted, wire, exhausted, userClosed>>

\* The transport finishes connecting: readyState OPEN, onopen runs.
TransportOpen(s) ==
    /\ task = 0
    /\ sockets[s].readyState = "CONNECTING"
    /\ sockets' = [sockets EXCEPT ![s].readyState = "OPEN",
                                  ![s].wasOpen = TRUE, ![s].openFired = TRUE]
    /\ handleOpen(s)

\* An open event queued before close() was called on a connecting socket is
\* delivered after it: onopen runs, the socket stays on its way to closed.
TransportOpenInFlight(s) ==
    /\ task = 0
    /\ sockets[s].readyState = "CLOSING"
    /\ ~sockets[s].wasOpen /\ ~sockets[s].openFired
    /\ sockets' = [sockets EXCEPT ![s].openFired = TRUE]
    /\ handleOpen(s)

\* Faulty variant of handleError: the error also drops the transport reference
\* and cancels the reconnect timer.
handleError_DropAndCancel(s) ==
    /\ status' = setStatus("error")
    /\ ws' = 0
    /\ timers' = clearReconnectTimeout
    /\ reconnectTimeoutId' = 0
    /\ UNCHANGED <<reconnectAttemptCount, explicitlyClosed, mounted, wire, exhausted, userClosed>>

\* handleError: only the status changes.
handleError(s) ==
    /\ status' = setStatus("error")
    /\ UNCHANGED <<ws, reconnectAttemptCount, reconnectTimeoutId, explicitlyClosed,
                   timers, mounted, wire, exhausted, userClosed>>

\* The connection fails: readyState CLOSED, onerror runs, and onclose(1006)
\* follows in the same event-loop task.
TransportError(s) ==
    /\ task = 0
    /\ Live(s)
    /\ sockets' = [sockets EXCEPT ![s].readyState = "CLOSED"]
    /\ task' = s
    /\ handleError(s)

handleClose(s, code) ==
    /\ ws' = 0
    /\ IF explicitlyClosed \/ code = CleanCode
       THEN /\ status' = setStatus("disconnected")
            /\ timers' = clearReconnectTimeout
            /\ reconnectTimeoutId' = 0
            /\ UNCHANGED <<reconnectAttemptCount, exhausted>>
       ELSE IF reconnectAttemptCount < reconnectAttempts
            THEN /\ Cardinality(timers) < MaxTimers
                 /\ status' = setStatus("connecting")
                 /\ reconnectAttemptCount' = reconnectAttemptCount + 1
                 /\ reconnectTimeoutId' = freeTimer
                 /\ timers' = timers \cup {[id |-> freeTimer, url |-> sockets[s].url]}
                 /\ UNCHANGED exhausted
            ELSE /\ status' = setStatus("error")
                 /\ exhausted' = TRUE
                 /\ UNCHANGED <<reconnectAttemptCount, reconnectTimeoutId, timers>>
    /\ UNCHANGED <<explicitlyClosed, mounted, wire, userClosed>>

\* The close event of socket s with the given code: after an error event of
\* the same task (1006), or a closing handshake of an established connection.
TransportClose(s, code) ==
    /\ \/ task = s /\ code = 1006
       \/ /\ task = 0 /\ code # 1006
          /\ sockets[s].wasOpen
          /\ sockets[s].readyState \in {"OPEN", "CLOSING"}
    /\ sockets' = dropSocket(s)
    /\ task' = 0
    /\ handleClose(s, code)

\* The reconnect timer t fires. Its callback belongs to the first render's
\* handleClose, whose connect captured the initial status 'disconnected'.
TimerFire(t) ==
    /\ task = 0
    /\ t \in timers
    /\ IF ws # 0
       THEN connectBody(sockets[ws].url, "disconnected", timers \ {t})
       ELSE /\ timers' = timers \ {t}
            /\ UNCHANGED <<status, ws, reconnectTimeoutId, explicitlyClosed, sockets>>
    /\ UNCHANGED <<reconnectAttemptCount, task, mounted, wire, exhausted, userClosed>>

\* Faulty variant of disconnect: without a transport the call does nothing.
disconnect_IgnoreWithoutTransport ==
    /\ mounted /\ task = 0
    /\ IF ws # 0
       THEN /\ explicitlyClosed' = TRUE
            /\ timers' = clearReconnectTimeout
            /\ reconnectTimeoutId' = 0
            /\ sockets' = closeSocket(ws)
            /\ UNCHANGED status
       ELSE UNCHANGED <<status, explicitlyClosed, timers, reconnectTimeoutId, sockets>>
    /\ userClosed' = TRUE
    /\ UNCHANGED <<ws, reconnectAttemptCount, task, mounted, wire, exhausted>>

\* Faulty variant of disconnect: the call also resets the attempt counter.
disconnect_ResetsCount ==
    /\ mounted /\ task = 0
    /\ IF ws # 0
       THEN /\ explicitlyClosed' = TRUE
            /\ timers' = clearReconnectTimeout
            /\ reconnectTimeoutId' = 0
            /\ sockets' = closeSocket(ws)
            /\ UNCHANGED status
       ELSE /\ status' = "disconnected"
            /\ UNCHANGED <<explicitlyClosed, timers, reconnectTimeoutId, sockets>>
    /\ userClosed' = TRUE
    /\ reconnectAttemptCount' = 0
    /\ UNCHANGED <<ws, task, mounted, wire, exhausted>>

disconnect ==
    /\ mounted /\ task = 0
    /\ IF ws # 0
       THEN /\ explicitlyClosed' = TRUE
            /\ timers' = clearReconnectTimeout
            /\ reconnectTimeoutId' = 0
            /\ sockets' = closeSocket(ws)
            /\ UNCHANGED status
       ELSE /\ status' = "disconnected"
            /\ UNCHANGED <<explicitlyClosed, timers, reconnectTimeoutId, sockets>>
    /\ userClosed' = TRUE
    /\ UNCHANGED <<ws, reconnectAttemptCount, task, mounted, wire, exhausted>>

\* Faulty variant of sendOutcome: the readyState test is left out.
sendOutcome_NoReadyStateCheck == IF ws # 0 THEN "sent" ELSE "warned"

\* What sendMessage(data) does in the current state.
sendOutcome == IF IsOpen(ws) THEN "sent" ELSE "warned"

sendMessage ==
    /\ mounted /\ task = 0
    /\ wire' = sendOutcome
    /\ UNCHANGED <<status, ws, reconnectAttemptCount, reconnectTimeoutId, explicitlyClosed,
                   sockets, timers, task, mounted, exhausted, userClosed>>

\* The cleanup of the hook's effect, run when the component unmounts.
Unmount ==
    /\ mounted /\ task = 0
    /\ mounted' = FALSE
    /\ timers' = clearReconnectTimeout
    /\ reconnectTimeoutId' = 0
    /\ IF ws # 0
       THEN /\ explicitlyClosed' = TRUE
            /\ sockets' = closeSocket(ws)
       ELSE UNCHANGED <<explicitlyClosed, sockets>>
    /\ UNCHANGED <<status, ws, reconnectAttemptCount, task, wire, exhausted, userClosed>>


\* ------------------------------------------------------------------ Throttle
\* One instance returned by throttle(func, delay). The n-th call passes n as
\* its arguments, so every call is told apart from every other.
VARIABLES
    delay,                  \* the `delay` the instance was created with
    now,                    \* the clock, in milliseconds
    timeoutId,              \* NoTimeout (null), else the time the pending timeout is due
    lastArgs,               \* 0 is null, else the arguments retained
    trailingCallScheduled,
    ncalls,                 \* calls made to throttled() so far
    invocations             \* log of func invocations: <<[t, args], ...>>

thVars == <<delay, now, timeoutId, lastArgs, trailingCallScheduled, ncalls, invocations>>

NoTimeout == -1

ThInit(d) ==
    /\ delay = d
    /\ now = 0
    /\ timeoutId = NoTimeout
    /\ lastArgs = 0
    /\ trailingCallScheduled = FALSE
    /\ ncalls = 0
    /\ invocations = <<>>

\* func.apply(this, args) at the current time.
invoke(args) == Append(invocations, [t |-> now, args |-> args])

\* Faulty variant of throttled: a call during the cooldown is dropped, no
\* trailing call is scheduled.
throttled_DropCoalesced ==
    /\ ncalls' = ncalls + 1
    /\ lastArgs' = ncalls + 1
    /\ IF timeoutId = NoTimeout
       THEN /\ invocations' = invoke(ncalls + 1)
            /\ timeoutId' = now + delay
       ELSE UNCHANGED <<invocations, timeoutId>>
    /\ UNCHANGED <<delay, now, trailingCallScheduled>>

\* Faulty variant of throttled: during a cooldown the arguments of the first
\* coalesced call are kept instead of the latest.
throttled_KeepFirst ==
    /\ ncalls' = ncalls + 1
    /\ lastArgs' = IF timeoutId # NoTimeout /\ trailingCallScheduled
                   THEN lastArgs ELSE ncalls + 1
    /\ IF timeoutId = NoTimeout
       THEN /\ invocations' = invoke(ncalls + 1)
            /\ timeoutId' = now + delay
            /\ UNCHANGED trailingCallScheduled
       ELSE /\ trailingCallScheduled' = TRUE
            /\ UNCHANGED <<invocations, timeoutId>>
    /\ UNCHANGED <<delay, now>>

\* Faulty variant of throttled: a call during the cooldown starts the timeout
\* anew, as a debounce would.
throttled_RestartCooldown ==
    /\ ncalls' = ncalls + 1
    /\ lastArgs' = ncalls + 1
    /\ timeoutId' = now + delay
    /\ IF timeoutId = NoTimeout
       THEN /\ invocations' = invoke(ncalls + 1)
            /\ UNCHANGED trailingCallScheduled
       ELSE /\ trailingCallScheduled' = TRUE
            /\ UNCHANGED invocations
    /\ UNCHANGED <<delay, now>>

\* Faulty variant of throttled: a call made while idle is not invoked at once
\* but deferred to the end of the cooldown it starts.
throttled_NoLeading ==
    /\ ncalls' = ncalls + 1
    /\ lastArgs' = ncalls + 1
    /\ trailingCallScheduled' = TRUE
    /\ timeoutId' = IF timeoutId = NoTimeout THEN now + delay ELSE timeoutId
    /\ UNCHANGED <<delay, now, invocations>>

\* throttled(...args) called by the owner with fresh arguments.
throttled ==
    /\ ncalls' = ncalls + 1
    /\ lastArgs' = ncalls + 1
    /\ IF timeoutId = NoTimeout
       THEN /\ invocations' = invoke(ncalls + 1)
            /\ timeoutId' = now + delay
            /\ UNCHANGED trailingCallScheduled
       ELSE /\ trailingCallScheduled' = TRUE
            /\ UNCHANGED <<invocations, timeoutId>>
    /\ UNCHANGED <<delay, now>>

\* Faulty variant of timeoutCallback: the trailing call invokes func directly
\* and starts no new cooldown.
timeoutCallback_NoCooldown ==
    /\ timeoutId' = NoTimeout
    /\ IF trailingCallScheduled
       THEN /\ trailingCallScheduled' = FALSE
            /\ invocations' = invoke(lastArgs)
       ELSE UNCHANGED <<trailingCallScheduled, invocations>>
    /\ UNCHANGED <<delay, now, lastArgs, ncalls>>

\* Faulty variant of timeoutCallback: without a trailing call the cooldown is
\* started again instead of ending.
timeoutCallback_StaysBusy ==
    /\ timeoutId' = now + delay
    /\ IF trailingCallScheduled
       THEN /\ trailingCallScheduled' = FALSE
            /\ invocations' = invoke(lastArgs)
       ELSE UNCHANGED <<trailingCallScheduled, invocations>>
    /\ UNCHANGED <<delay, now, lastArgs, ncalls>>

\* Faulty variant of timeoutCallback: the cooldown ends and a coalesced call
\* is forgotten.
timeoutCallback_ForgetsTrailing ==
    /\ timeoutId' = NoTimeout
    /\ trailingCallScheduled' = FALSE
    /\ UNCHANGED <<delay, now, lastArgs, ncalls, invocations>>

\* Faulty variant of timeoutCallback: the cooldown always ends with an
\* invocation of the retained arguments, coalesced call or not.
timeoutCallback_AlwaysTrailing ==
    /\ trailingCallScheduled' = FALSE
    /\ invocations' = invoke(lastArgs)
    /\ timeoutId' = now + delay
    /\ UNCHANGED <<delay, now, lastArgs, ncalls>>

\* The setTimeout callback: timeoutId := null, then the trailing call, which
\* re-enters throttled with lastArgs while no timeout is active.
timeoutCallback ==
    /\ IF trailingCallScheduled
       THEN /\ trailingCallScheduled' = FALSE
            /\ invocations' = invoke(lastArgs)
            /\ timeoutId' = now + delay
       ELSE /\ timeoutId' = NoTimeout
            /\ UNCHANGED <<trailingCallScheduled, invocations>>
    /\ UNCHANGED <<delay, now, lastArgs, ncalls>>

\* The owner of the instance: its event listeners call throttled() for as
\* long as they are attached.
VARIABLE listening

\* A call at any moment while the owner's listeners are attached.
Call ==
    /\ listening
    /\ ncalls < MaxCalls
    /\ throttled

\* The owner's effect cleanup (unmount, or the handler being recreated):
\* the listeners are removed; the instance offers nothing to cancel its timeout.
RemoveListeners ==
    /\ listening
    /\ listening' = FALSE
    /\ UNCHANGED thVars

\* The pending timeout fires, at its due time or later.
TimeoutFire ==
    /\ timeoutId # NoTimeout
    /\ now >= timeoutId
    /\ timeoutCallback

\* The clock advances, up to MaxTime and further for as long as a timeout is
\* waiting for its time (every call extends the wait by at most one delay);
\* a due timeout may be served late.
Tick ==
    /\ \/ now < MaxTime
       \/ /\ timeoutId # NoTimeout /\ now < timeoutId
          /\ now < MaxTime + (MaxCalls + 1) * MaxDelay
    /\ now' = now + 1
    /\ UNCHANGED <<delay, timeoutId, lastArgs, trailingCallScheduled, ncalls, invocations>>

\* Scripted scenario: delay 20, calls at 0, 5 and 40, timers served on time.
Scenario == [delay |-> 20, calls |-> <<0, 5, 40>>]
ScenarioCalls == Scenario.calls

ScenarioCall ==
    /\ ncalls < Len(ScenarioCalls)
    /\ now = ScenarioCalls[ncalls + 1]
    /\ throttled

ScenarioTimeout ==
    /\ timeoutId # NoTimeout
    /\ now = timeoutId
    /\ timeoutCallback

ScenarioTick ==
    /\ now < ScenarioHorizon
    /\ timeoutId # now
    /\ ncalls < Len(ScenarioCalls) => now # ScenarioCalls[ncalls + 1]
    /\ now' = now + 1
    /\ UNCHANGED <<delay, timeoutId, lastArgs, trailingCallScheduled, ncalls, invocations>>

\* Sustained input: one call every millisecond from time 0 on, timers served
\* on time; at a millisecond where a timeout is due the call and the timeout
\* run in either order.
SustainedCall ==
    /\ ncalls = now
    /\ throttled

SustainedTimeout ==
    /\ timeoutId # NoTimeout
    /\ now = timeoutId
    /\ timeoutCallback

SustainedTick ==
    /\ now < SustainedHorizon
    /\ ncalls = now + 1
    /\ timeoutId # now
    /\ now' = now + 1
    /\ UNCHANGED <<delay, timeoutId, lastArgs, trailingCallScheduled, ncalls, invocations>>


\* --------------------------------------------------------------------- Relay
\* The bridge relay: sessions accepted over WebSocket, each inbound frame
\* decoded, re-encoded and forwarded to the one datagram sink.
VARIABLES
    sessions,               \* per accepted session: frames sent, frames handled, open
    sink,                   \* datagrams forwarded so far, in sending order
    relayLog                \* number of errors the relay has logged

rlVars == <<sessions, sink, relayLog>>

\* The relay process: its servers, its UDP sender and its shutdown.
VARIABLES
    accepting,              \* wss is attached to the HTTPS server and takes connections
    sinkOpen,               \* oscUdpSender has not been closed
    serverBound,            \* the HTTPS server holds its port
    exit,                   \* "running", or how the process ended: "exit0", "exit1"
    forceTimer,             \* the 5000 ms shutdown timeout is armed
    shutdownLog,            \* the shutdown calls made so far, in call order
    sinkErrors              \* 'error' events of oscUdpSender logged so far, each with
                            \* the number of datagrams handed to the sender before it

sdVars == <<accepting, sinkOpen, serverBound, exit, forceTimer, shutdownLog, sinkErrors>>

\* The relay after server.listen and oscUdpSender.open().
SdInit ==
    /\ accepting = TRUE
    /\ sinkOpen = TRUE
    /\ serverBound = TRUE
    /\ exit = "running"
    /\ forceTimer = FALSE
    /\ shutdownLog = <<>>
    /\ sinkErrors = <<>>

\* A frame as the client put it on the wire: a binary frame holding the
\* envelope of message `msg`, a binary frame that is no envelope, or text.
FrameKinds == {"envelope", "garbage", "text"}

RlInit ==
    /\ sessions = <<>>
    /\ sink = <<>>
    /\ relayLog = 0

FramesSent == LET count[i \in 0..Len(sessions)] ==
                      IF i = 0 THEN 0 ELSE count[i - 1] + Len(sessions[i].sent)
              IN count[Len(sessions)]

\* unpack of an inbound Buffer: the message of a well-formed envelope, an
\* exception otherwise.
decode(frame) ==
    IF frame.kind = "envelope"
    THEN [ok |-> TRUE, msg |-> frame.msg]
    ELSE [ok |-> FALSE, msg |-> 0]

\* The relay accepts a connection and creates its session.
Accept ==
    /\ accepting
    /\ Len(sessions) < MaxSessions
    /\ sessions' = Append(sessions, [sent |-> <<>>, handled |-> 0, open |-> TRUE])
    /\ UNCHANGED <<sink, relayLog>>

\* The client of session s puts one more frame on the wire; the n-th frame of
\* a session carries message n.
ClientSend(s, kind) ==
    /\ sessions[s].open
    /\ FramesSent < MaxFrames
    /\ sessions' = [sessions EXCEPT ![s].sent =
            Append(@, [kind |-> kind, msg |-> Len(@) + 1])]
    /\ UNCHANGED <<sink, relayLog>>

\* Faulty variant of OnMessage: a forwarded message is put in front of the
\* datagrams already sent instead of behind them.
OnMessage_Reorder(s) ==
    /\ sessions[s].open
    /\ sessions[s].handled < Len(sessions[s].sent)
    /\ LET frame == sessions[s].sent[sessions[s].handled + 1]
           got == decode(frame)
       IN /\ sessions' = [sessions EXCEPT ![s].handled = @ + 1]
          /\ IF frame.kind = "text"
             THEN UNCHANGED <<sink, relayLog>>
             ELSE IF got.ok
                  THEN /\ sink' = <<[session |-> s, msg |-> got.msg]>> \o sink
                       /\ UNCHANGED relayLog
                  ELSE /\ relayLog' = relayLog + 1
                       /\ UNCHANGED sink

\* Faulty variant of OnMessage: a frame that fails to decode closes the session.
OnMessage_CloseOnMalformed(s) ==
    /\ sessions[s].open
    /\ sessions[s].handled < Len(sessions[s].sent)
    /\ LET frame == sessions[s].sent[sessions[s].handled + 1]
           got == decode(frame)
       IN IF frame.kind = "text"
          THEN /\ sessions' = [sessions EXCEPT ![s].handled = @ + 1]
               /\ UNCHANGED <<sink, relayLog>>
          ELSE IF got.ok
               THEN /\ sessions' = [sessions EXCEPT ![s].handled = @ + 1]
                    /\ sink' = Append(sink, [session |-> s, msg |-> got.msg])
                    /\ UNCHANGED relayLog
               ELSE /\ sessions' = [sessions EXCEPT ![s].handled = @ + 1, ![s].open = FALSE]
                    /\ relayLog' = relayLog + 1
                    /\ UNCHANGED sink

\* The session's message handler runs on the next frame it received. An
\* exception of unpack, or of send on a closed sender, is caught and logged.
OnMessage(s) ==
    /\ sessions[s].open
    /\ sessions[s].handled < Len(sessions[s].sent)
    /\ LET frame == sessions[s].sent[sessions[s].handled + 1]
           got == decode(frame)
       IN /\ sessions' = [sessions EXCEPT ![s].handled = @ + 1]
          /\ IF frame.kind = "text"
             THEN UNCHANGED <<sink, relayLog>>
             ELSE IF got.ok /\ sinkOpen
                  THEN /\ sink' = Append(sink, [session |-> s, msg |-> got.msg])
                       /\ UNCHANGED relayLog
                  ELSE /\ relayLog' = relayLog + 1
                       /\ UNCHANGED sink

\* The client of session s goes away; the session is destroyed.
OnClose(s) ==
    /\ sessions[s].open
    /\ sessions' = [sessions EXCEPT ![s].open = FALSE]
    /\ UNCHANGED <<sink, relayLog>>

NoSessionOpen == \A s \in 1..Len(sessions) : ~sessions[s].open

AllSessionsClosed == [s \in 1..Len(sessions) |-> [sessions[s] EXCEPT !.open = FALSE]]

\* Variant: a failure of the sender ends every session.
SinkError_ClosesSessions ==
    /\ exit = "running"
    /\ sinkOpen
    /\ Len(sink) > 0
    /\ Len(sinkErrors) < MaxSinkErrors
    /\ sinkErrors' = Append(sinkErrors, Len(sink))
    /\ sessions' = AllSessionsClosed
    /\ UNCHANGED <<accepting, sinkOpen, serverBound, exit, forceTimer, shutdownLog>>
    /\ UNCHANGED <<sink, relayLog>>

\* The 'error' listener of oscUdpSender: a failure reported by the UDP socket
\* after a send is logged.
SinkError ==
    /\ exit = "running"
    /\ sinkOpen
    /\ Len(sink) > 0
    /\ Len(sinkErrors) < MaxSinkErrors
    /\ sinkErrors' = Append(sinkErrors, Len(sink))
    /\ UNCHANGED <<accepting, sinkOpen, serverBound, exit, forceTimer, shutdownLog>>
    /\ UNCHANGED rlVars

\* The SIGINT handler: oscUdpSender.close(), then wss.close(callback), then the
\* 5000 ms timeout is set. wss.close detaches the WebSocket server from the
\* HTTPS server; whether it also terminates the connected clients depends on
\* the release of the ws package, so both outcomes are possible.
Sigint ==
    /\ exit = "running"
    /\ shutdownLog = <<>>
    /\ sinkOpen' = FALSE
    /\ accepting' = FALSE
    /\ \E terminate \in BOOLEAN :
          sessions' = IF terminate THEN AllSessionsClosed ELSE sessions
    /\ forceTimer' = TRUE
    /\ shutdownLog' = <<"sink", "wss">>
    /\ UNCHANGED <<serverBound, exit, sinkErrors, sink, relayLog>>

\* The callback of wss.close runs once no client is connected: server.close()
\* stops the HTTPS server listening.
WssClosed ==
    /\ exit = "running"
    /\ shutdownLog = <<"sink", "wss">>
    /\ NoSessionOpen
    /\ serverBound' = FALSE
    /\ shutdownLog' = Append(shutdownLog, "server")
    /\ UNCHANGED <<accepting, sinkOpen, exit, forceTimer, sinkErrors>>
    /\ UNCHANGED rlVars

\* The callback of server.close: process.exit(0).
ServerClosed ==
    /\ exit = "running"
    /\ shutdownLog = <<"sink", "wss", "server">>
    /\ NoSessionOpen
    /\ exit' = "exit0"
    /\ forceTimer' = FALSE
    /\ UNCHANGED <<accepting, sinkOpen, serverBound, shutdownLog, sinkErrors>>
    /\ UNCHANGED rlVars

\* Variant: the shutdown timeout fires and the process keeps running.
ShutdownTimeout_Ignored ==
    /\ exit = "running"
    /\ forceTimer
    /\ forceTimer' = FALSE
    /\ UNCHANGED <<accepting, sinkOpen, serverBound, exit, shutdownLog, sinkErrors>>
    /\ UNCHANGED rlVars

\* The shutdown timeout fires: process.exit(1) ends the process with whatever
\* is still open.
ShutdownTimeout ==
    /\ exit = "running"
    /\ forceTimer
    /\ exit' = "exit1"
    /\ forceTimer' = FALSE
    /\ serverBound' = FALSE
    /\ sessions' = AllSessionsClosed
    /\ UNCHANGED <<accepting, sinkOpen, shutdownLog, sinkErrors, sink, relayLog>>

\* ------------------------------------------------------ Message Envelope Codec
\* The envelope of a message on its way from sendOsc to the datagram sink:
\* packed by the client, unpacked by the relay, packed again for the sink.
\* Bytes are numbers 0..255, strings are sequences of bytes, a float is the
\* number m * 2^e with m odd (or m = e = 0) and fewer than 25 bits.
VARIABLES
    oscMessage,             \* the Message built by the client: [address, args]
    codecStep,              \* "built", "packed", "unpacked", "forwarded"
    binaryMsg,              \* bytes of oscMessage.pack()
    unpackedMessage,        \* result of the relay's unpack(dataView)
    datagram                \* bytes of the relay's messageToSend, sent to the sink

cdVars == <<oscMessage, codecStep, binaryMsg, unpackedMessage, datagram>>

\* Type tag characters of the envelope: 'i', 'f', 's', 'T', 'F'.
TypeTags == [int |-> 105, float |-> 102, string |-> 115, true |-> 84, false |-> 70]

\* Addresses and argument values a client passes: "/a", "/xy", "/hand/p";
\* 32-bit integers; 32-bit floats 0, 1, 0.5, -2.5, 3, 16777215; the strings
\* "", "abc", "abcd"; booleans.
Addresses == {<<47, 97>>, <<47, 120, 121>>, <<47, 104, 97, 110, 100, 47, 112>>}
ArgValues ==
    {[type |-> "int", value |-> v] : v \in {0, 1, -1, 2147483647, -2147483647}}
    \cup {[type |-> "float", value |-> x] :
            x \in {[m |-> 0, e |-> 0], [m |-> 1, e |-> 0], [m |-> 1, e |-> -1],
                   [m |-> -5, e |-> -1], [m |-> 3, e |-> 0], [m |-> 16777215, e |-> 0]}}
    \cup {[type |-> "string", value |-> str] : str \in {<<>>, <<97, 98, 99>>, <<97, 98, 99, 100>>}}
    \cup {[type |-> "bool", value |-> b] : b \in BOOLEAN}
ArgLists == UNION {[1..n -> ArgValues] : n \in 0..MaxArgs}
Messages == [address : Addresses, args : ArgLists]

\* Zero bytes up to the next multiple of four.
Pad4(bytes) == bytes \o [i \in 1..((4 - (Len(bytes) % 4)) % 4) |-> 0]

\* A string: its bytes, a terminating zero, padded to a multiple of four.
packString(str) == Pad4(Append(str, 0))

\* Faulty variant of packInt32: the four bytes are written in little-endian order.
packInt32_LittleEndian(v) ==
    << v % 256, (v \div 256) % 256, (v \div 65536) % 256, (v \div 16777216) % 256 >>

\* A 32-bit integer: two's complement, big-endian.
packInt32(v) ==
    << (v \div 16777216) % 256, (v \div 65536) % 256, (v \div 256) % 256, v % 256 >>

unpackInt32(b) ==
    (IF b[1] >= 128 THEN b[1] - 256 ELSE b[1]) * 16777216 + b[2] * 65536 + b[3] * 256 + b[4]

\* Number of bits of n >= 1.
RECURSIVE BitLen(_)
BitLen(n) == IF n <= 1 THEN 1 ELSE 1 + BitLen(n \div 2)

\* A 32-bit float (IEEE 754 single, normal range), big-endian: sign bit,
\* 8 bits of biased exponent, 23 bits of fraction.
packFloat32(x) ==
    IF x.m = 0 THEN <<0, 0, 0, 0>>
    ELSE LET mag == IF x.m < 0 THEN -x.m ELSE x.m
             len == BitLen(mag)
             biased == x.e + len - 1 + 127
             frac == (mag - 2^(len - 1)) * 2^(24 - len)
         IN << (IF x.m < 0 THEN 128 ELSE 0) + biased \div 2,
               (biased % 2) * 128 + frac \div 65536,
               (frac \div 256) % 256,
               frac % 256 >>

\* The number sig * 2^e with the factors of two moved from sig to e.
RECURSIVE Normalize(_, _)
Normalize(sig, e) == IF sig % 2 = 0 THEN Normalize(sig \div 2, e + 1) ELSE [m |-> sig, e |-> e]

unpackFloat32(b) ==
    LET biased == (b[1] % 128) * 2 + b[2] \div 128
        frac == (b[2] % 128) * 65536 + b[3] * 256 + b[4]
        num == Normalize(8388608 + frac, biased - 150)
    IN IF biased = 0 /\ frac = 0 THEN [m |-> 0, e |-> 0]
       ELSE IF b[1] >= 128 THEN [m |-> -num.m, e |-> num.e] ELSE num

\* The type tag and the data bytes of one argument.
tagOf(arg) ==
    CASE arg.type = "int" -> TypeTags.int
      [] arg.type = "float" -> TypeTags.float
      [] arg.type = "string" -> TypeTags.string
      [] arg.type = "bool" -> IF arg.value THEN TypeTags.true ELSE TypeTags.false

packArg(arg) ==
    CASE arg.type = "int" -> packInt32(arg.value)
      [] arg.type = "float" -> packFloat32(arg.value)
      [] arg.type = "string" -> packString(arg.value)
      [] arg.type = "bool" -> <<>>

RECURSIVE packArgs(_)
packArgs(args) == IF args = <<>> THEN <<>> ELSE packArg(Head(args)) \o packArgs(Tail(args))

\* pack(): the address string, the type tag string ("," then one tag per
\* argument), then the arguments' data in order.
pack(msg) ==
    packString(msg.address)
        \o packString(<<44>> \o [i \in 1..Len(msg.args) |-> tagOf(msg.args[i])])
        \o packArgs(msg.args)

\* What unpack yields for bytes that are no envelope (it throws).
Malformed == [ok |-> FALSE, address |-> <<>>, args |-> <<>>]

\* The string starting at pos: up to the first zero byte, with its padding.
readString(bytes, pos) ==
    LET ends == {i \in pos..Len(bytes) : bytes[i] = 0}
    IN IF ends = {} THEN [ok |-> FALSE, str |-> <<>>, next |-> pos]
       ELSE LET end == CHOOSE i \in ends : \A j \in ends : i <= j
                next == pos + 4 * ((end - pos) \div 4 + 1)
            IN IF next - 1 > Len(bytes) THEN [ok |-> FALSE, str |-> <<>>, next |-> pos]
               ELSE [ok |-> TRUE, str |-> SubSeq(bytes, pos, end - 1), next |-> next]

\* The arguments named by tags[k..], read from pos on.
RECURSIVE readArgs(_, _, _, _)
readArgs(bytes, pos, tags, k) ==
    IF k > Len(tags) THEN [ok |-> TRUE, args |-> <<>>]
    ELSE LET tag == tags[k]
             with(arg, rest) == IF rest.ok THEN [ok |-> TRUE, args |-> <<arg>> \o rest.args]
                                ELSE rest
             bad == [ok |-> FALSE, args |-> <<>>]
         IN IF tag = TypeTags.int
            THEN IF pos + 3 > Len(bytes) THEN bad
                 ELSE with([type |-> "int", value |-> unpackInt32(SubSeq(bytes, pos, pos + 3))],
                           readArgs(bytes, pos + 4, tags, k + 1))
            ELSE IF tag = TypeTags.float
            THEN IF pos + 3 > Len(bytes) THEN bad
                 ELSE with([type |-> "float", value |-> unpackFloat32(SubSeq(bytes, pos, pos + 3))],
                           readArgs(bytes, pos + 4, tags, k + 1))
            ELSE IF tag = TypeTags.string
            THEN LET str == readString(bytes, pos)
                 IN IF ~str.ok THEN bad
                    ELSE with([type |-> "string", value |-> str.str],
                              readArgs(bytes, str.next, tags, k + 1))
            ELSE IF tag \in {TypeTags.true, TypeTags.false}
            THEN with([type |-> "bool", value |-> (tag = TypeTags.true)],
                      readArgs(bytes, pos, tags, k + 1))
            ELSE bad

\* unpack(dataView): the inverse of pack; fails on a truncated buffer, an
\* address without leading slash, a missing "," or an unknown type tag.
unpack(bytes) ==
    LET addr == readString(bytes, 1)
    IN IF ~addr.ok \/ addr.str = <<>> \/ addr.str[1] # 47 THEN Malformed
       ELSE LET tags == readString(bytes, addr.next)
            IN IF ~tags.ok \/ tags.str = <<>> \/ tags.str[1] # 44 THEN Malformed
               ELSE LET got == readArgs(bytes, tags.next, Tail(tags.str), 1)
                    IN IF got.ok
                       THEN [ok |-> TRUE, address |-> addr.str, args |-> got.args]
                       ELSE Malformed

CodecInit(msg) ==
    /\ oscMessage = msg
    /\ codecStep = "built"
    /\ binaryMsg = <<>>
    /\ unpackedMessage = Malformed
    /\ datagram = <<>>

\* sendOsc: oscMessage.pack(), the buffer goes to the WebSocket.
ClientPack ==
    /\ codecStep = "built"
    /\ binaryMsg' = pack(oscMessage)
    /\ codecStep' = "packed"
    /\ UNCHANGED <<oscMessage, unpackedMessage, datagram>>

\* The relay's message handler, step 1: unpack the received buffer.
RelayUnpack ==
    /\ codecStep = "packed"
    /\ unpackedMessage' = unpack(binaryMsg)
    /\ codecStep' = "unpacked"
    /\ UNCHANGED <<oscMessage, binaryMsg, datagram>>

\* Steps 2 to 4: a new message from the extracted address and arguments is
\* packed and sent to the sink; nothing is sent if unpack threw.
RelayForward ==
    /\ codecStep = "unpacked"
    /\ unpackedMessage.ok
    /\ LET messageToSend == [address |-> unpackedMessage.address,
                             args |-> unpackedMessage.args]
       IN datagram' = pack(messageToSend)
    /\ codecStep' = "forwarded"
    /\ UNCHANGED <<oscMessage, binaryMsg, unpackedMessage>>

\* ------------------------------------------------------------ specifications
vars == <<cmVars, thVars, rlVars, cdVars, listening, sdVars>>

\* The codec while the other components run: holding the message "/a" without arguments.
CodecIdle == CodecInit([address |-> <<47, 97>>, args |-> <<>>])

InitAll == CMInit /\ ThInit(1) /\ RlInit /\ CodecIdle /\ listening = TRUE /\ SdInit

\* The Connection Manager; throttle and relay stay as constructed.
Init == InitAll

Next ==
    \/ (\E url \in Urls : connect(url)) /\ UNCHANGED <<thVars, rlVars, cdVars, listening, sdVars>>
    \/ disconnect /\ UNCHANGED <<thVars, rlVars, cdVars, listening, sdVars>>
    \/ sendMessage /\ UNCHANGED <<thVars, rlVars, cdVars, listening, sdVars>>
    \/ Unmount /\ UNCHANGED <<thVars, rlVars, cdVars, listening, sdVars>>
    \/ (\E s \in SocketIds : TransportOpen(s)) /\ UNCHANGED <<thVars, rlVars, cdVars, listening, sdVars>>
    \/ (\E s \in SocketIds : TransportOpenInFlight(s)) /\ UNCHANGED <<thVars, rlVars, cdVars, listening, sdVars>>
    \/ (\E s \in SocketIds : TransportError(s)) /\ UNCHANGED <<thVars, rlVars, cdVars, listening, sdVars>>
    \/ (\E s \in SocketIds, code \in CloseCodes : TransportClose(s, code))
            /\ UNCHANGED <<thVars, rlVars, cdVars, listening, sdVars>>
    \/ (\E t \in timers : TimerFire(t)) /\ UNCHANGED <<thVars, rlVars, cdVars, listening, sdVars>>

Spec == Init /\ [][Next]_vars

\* The throttle under arbitrary calls.
InitThrottle == CMInit /\ RlInit /\ CodecIdle /\ listening = TRUE /\ SdInit /\ \E d \in 1..MaxDelay : ThInit(d)

NextThrottle ==
    \/ Call /\ UNCHANGED <<cmVars, rlVars, cdVars, listening, sdVars>>
    \/ TimeoutFire /\ UNCHANGED <<cmVars, rlVars, cdVars, listening, sdVars>>
    \/ Tick /\ UNCHANGED <<cmVars, rlVars, cdVars, listening, sdVars>>
    \/ RemoveListeners /\ UNCHANGED <<cmVars, rlVars, cdVars, sdVars>>

SpecThrottle == InitThrottle /\ [][NextThrottle]_vars

\* The event loop runs a timeout that is due, and time passes.
SpecThrottleFair == SpecThrottle /\ WF_thVars(TimeoutFire) /\ WF_thVars(Tick)

\* The throttle in the scripted scenario.
InitScenario == CMInit /\ RlInit /\ CodecIdle /\ listening = TRUE /\ SdInit /\ ThInit(Scenario.delay)

NextScenario ==
    \/ ScenarioCall /\ UNCHANGED <<cmVars, rlVars, cdVars, listening, sdVars>>
    \/ ScenarioTimeout /\ UNCHANGED <<cmVars, rlVars, cdVars, listening, sdVars>>
    \/ ScenarioTick /\ UNCHANGED <<cmVars, rlVars, cdVars, listening, sdVars>>

SpecScenario == InitScenario /\ [][NextScenario]_vars

\* The throttle under sustained calls, faster than one per `delay`.
InitSustained == CMInit /\ RlInit /\ CodecIdle /\ listening = TRUE /\ SdInit /\ \E d \in 2..MaxDelay : ThInit(d)

NextSustained ==
    \/ SustainedCall /\ UNCHANGED <<cmVars, rlVars, cdVars, listening, sdVars>>
    \/ SustainedTimeout /\ UNCHANGED <<cmVars, rlVars, cdVars, listening, sdVars>>
    \/ SustainedTick /\ UNCHANGED <<cmVars, rlVars, cdVars, listening, sdVars>>

SpecSustained == InitSustained /\ [][NextSustained]_vars

\* The relay.
NextRelay ==
    \/ Accept /\ UNCHANGED <<cmVars, thVars, cdVars, listening, sdVars>>
    \/ (\E s \in 1..Len(sessions), kind \in FrameKinds : ClientSend(s, kind))
            /\ UNCHANGED <<cmVars, thVars, cdVars, listening, sdVars>>
    \/ (\E s \in 1..Len(sessions) : OnMessage(s)) /\ UNCHANGED <<cmVars, thVars, cdVars, listening, sdVars>>
    \/ (\E s \in 1..Len(sessions) : OnClose(s)) /\ UNCHANGED <<cmVars, thVars, cdVars, listening, sdVars>>

SpecRelay == InitAll /\ [][NextRelay]_vars

\* The relay and the failures its UDP sender reports.
NextSink ==
    \/ Accept /\ UNCHANGED <<cmVars, thVars, cdVars, listening, sdVars>>
    \/ (\E s \in 1..Len(sessions), kind \in FrameKinds : ClientSend(s, kind))
            /\ UNCHANGED <<cmVars, thVars, cdVars, listening, sdVars>>
    \/ (\E s \in 1..Len(sessions) : OnMessage(s)) /\ UNCHANGED <<cmVars, thVars, cdVars, listening, sdVars>>
    \/ (\E s \in 1..Len(sessions) : OnClose(s)) /\ UNCHANGED <<cmVars, thVars, cdVars, listening, sdVars>>
    \/ SinkError /\ UNCHANGED <<cmVars, thVars, cdVars, listening>>

SpecSink == InitAll /\ [][NextSink]_vars

\* The relay process from startup to exit, its clients sending binary frames.
NextProcess ==
    \/ Accept /\ UNCHANGED <<cmVars, thVars, cdVars, listening, sdVars>>
    \/ (\E s \in 1..Len(sessions), kind \in {"envelope", "garbage"} : ClientSend(s, kind))
            /\ UNCHANGED <<cmVars, thVars, cdVars, listening, sdVars>>
    \/ (\E s \in 1..Len(sessions) : OnMessage(s)) /\ UNCHANGED <<cmVars, thVars, cdVars, listening, sdVars>>
    \/ (\E s \in 1..Len(sessions) : OnClose(s)) /\ UNCHANGED <<cmVars, thVars, cdVars, listening, sdVars>>
    \/ Sigint /\ UNCHANGED <<cmVars, thVars, cdVars, listening>>
    \/ WssClosed /\ UNCHANGED <<cmVars, thVars, cdVars, listening>>
    \/ ServerClosed /\ UNCHANGED <<cmVars, thVars, cdVars, listening>>
    \/ ShutdownTimeout /\ UNCHANGED <<cmVars, thVars, cdVars, listening>>

SpecProcess == InitAll /\ [][NextProcess]_vars

\* Node runs a timer that is due: the shutdown timeout cannot stay armed for
\* ever in a running process.
SpecShutdown == SpecProcess /\ WF_sdVars(ShutdownTimeout)

\* The codec applied to every message of the bounded input set.
InitCodec == CMInit /\ ThInit(1) /\ RlInit /\ listening = TRUE /\ SdInit /\ \E msg \in Messages : CodecInit(msg)

NextCodec ==
    \/ ClientPack /\ UNCHANGED <<cmVars, thVars, rlVars, listening, sdVars>>
    \/ RelayUnpack /\ UNCHANGED <<cmVars, thVars, rlVars, listening, sdVars>>
    \/ RelayForward /\ UNCHANGED <<cmVars, thVars, rlVars, listening, sdVars>>

SpecCodec == InitCodec /\ [][NextCodec]_vars

\* ---------------------------------------------- Connection Manager: claims
UncleanClose(s, code) == TransportClose(s, code) /\ ~explicitlyClosed /\ code # CleanCode

\* C1: an unclean, unrequested close below the attempt limit schedules exactly
\* one reconnect timer, and when a reconnect timer fires a new transport is
\* opened to the URL of the connection whose close scheduled it.
C1_ReconnectOpensPreviousUrl ==
    [][ /\ \A s \in SocketIds, code \in CloseCodes :
              (UncleanClose(s, code) /\ reconnectAttemptCount < reconnectAttempts)
                  => Cardinality(timers' \ timers) = 1
        /\ \A t \in timers :
              TimerFire(t) => \E n \in DOMAIN sockets' \ DOMAIN sockets :
                                  sockets'[n].url = t.url ]_vars

\* C2: disconnect() in any state cancels every pending reconnect timer, leaves
\* the status `disconnected` when no transport is live, and no reconnect timer
\* opens a transport until the next connect().
C2_DisconnectCancelsAll ==
    [][ /\ disconnect => /\ timers' = {}
                         /\ (ws = 0 => status' = "disconnected")
        /\ \A t \in timers :
              (userClosed /\ TimerFire(t)) => DOMAIN sockets' \subseteq DOMAIN sockets ]_vars

\* C3: an unclean close arriving with the attempt counter at the maximum sets
\* the status to `error` and schedules no reconnect timer, and none is
\* scheduled later until a new explicit connect().
C3_ExhaustedNoTimer ==
    [][ /\ \A s \in SocketIds, code \in CloseCodes :
              (UncleanClose(s, code) /\ reconnectAttemptCount >= reconnectAttempts)
                  => /\ mounted => status' = "error"
                     /\ timers' = timers
        /\ (exhausted /\ exhausted') => timers' \subseteq timers ]_vars

\* C4: at most one transport created by the instance is live at any time.
C4_AtMostOneLiveTransport == Cardinality(LiveSockets) <= 1

\* C5 (as claimed): sendMessage hands the data to the transport if and only
\* if the status is `connected`, and otherwise only warns.
C5_SendIffConnected ==
    [][ sendMessage => /\ (wire' = "sent") <=> (status = "connected")
                       /\ (wire' # "sent") => (wire' = "warned") ]_vars

\* C5 (amended): sendMessage hands the data to the transport if and only if
\* ws.current is an OPEN socket; whenever it does the status is `connected`,
\* so in `disconnected`, `connecting` and `error` it only warns.
C5_SendIffOpen ==
    [][ sendMessage => /\ (wire' = "sent") <=> IsOpen(ws)
                       /\ (wire' = "sent") => (status = "connected")
                       /\ (status # "connected") => (wire' = "warned") ]_vars

\* A message was handed to an open transport while connected.
C5_Witness == wire = "sent" /\ status = "connected" /\ IsOpen(ws)

\* C6: unmounting cancels every pending reconnect timer and closes every live
\* transport, and afterwards no timer is scheduled and no transport is opened.
C6_TeardownFinal ==
    [][ /\ Unmount => /\ timers' = {}
                      /\ \A s \in DOMAIN sockets' : sockets'[s].readyState # "CONNECTING"
                      /\ \A s \in DOMAIN sockets' : sockets'[s].readyState # "OPEN"
        /\ ~mounted => (timers' \subseteq timers /\ DOMAIN sockets' \subseteq DOMAIN sockets) ]_vars

\* C13: the close event of the transport on which disconnect() called close(),
\* with no connect() since, is treated as intentional whatever transport event
\* was delivered in between and whatever its code: the status becomes
\* `disconnected` and no reconnect is scheduled.
C13_CloseAfterDisconnectIntentional ==
    [][ \A s \in SocketIds, code \in CloseCodes :
            (TransportClose(s, code) /\ mounted /\ userClosed /\ ws = s /\ sockets[s].closeCalled)
                => /\ status' = "disconnected"
                   /\ timers' \subseteq timers ]_vars

\* connect(url) changed nothing: no transport, no status, no timer.
ConnectNoOp == UNCHANGED <<status, ws, sockets, timers, reconnectTimeoutId,
                           reconnectAttemptCount, explicitlyClosed>>

\* connect(url) opened a transport and the status is `connecting`.
ConnectOpened ==
    /\ status' = "connecting"
    /\ ws' \in DOMAIN sockets' \ DOMAIN sockets
    /\ sockets'[ws'].readyState = "CONNECTING"

\* C14: connect(url) in `disconnected` or `error` moves to `connecting` and
\* opens a transport; connect(url) while `connecting`, or while `connected`
\* with a live transport, changes nothing.
C14_ConnectTransitions ==
    [][ \A url \in GoodUrls :
            connect(url) =>
                /\ status \in {"disconnected", "error"} => ConnectOpened
                /\ (status = "connecting" \/ (status = "connected" /\ ws \in LiveSockets))
                       => ConnectNoOp ]_vars

\* C15: an open event received while `connecting` sets the status to
\* `connected`, resets the attempt counter to 0 and leaves no reconnect timer
\* pending.
C15_OpenWhileConnecting ==
    [][ \A s \in SocketIds :
            ((TransportOpen(s) \/ TransportOpenInFlight(s)) /\ mounted /\ status = "connecting")
                => /\ status' = "connected"
                   /\ reconnectAttemptCount' = 0
                   /\ reconnectTimeoutId' = 0
                   /\ timers' = {} ]_vars

\* The close was handled as intentional: status `disconnected`, the timer the
\* manager holds cancelled, no timer scheduled, the counter untouched.
HandledAsIntentional ==
    /\ status' = "disconnected"
    /\ reconnectTimeoutId' = 0
    /\ timers' = {t \in timers : t.id # reconnectTimeoutId}
    /\ reconnectAttemptCount' = reconnectAttemptCount

\* C16: a close event with the clean code 1000, or any close event of a
\* transport that disconnect() closed, is handled as intentional whatever the
\* value of the attempt counter.
C16_CleanOrExplicitClose ==
    [][ \A s \in SocketIds, code \in CloseCodes :
            (TransportClose(s, code) /\ mounted /\ (code = CleanCode \/ sockets[s].closeCalled))
                => HandledAsIntentional ]_vars

\* C17: an error event sets the status to `error` and changes nothing else: no
\* timer is scheduled or cancelled, the counter and the explicit-close flag
\* keep their values, and the transport reference is kept.
C17_ErrorOnlySetsStatus ==
    [][ \A s \in SocketIds :
            TransportError(s)
                => /\ mounted => status' = "error"
                   /\ timers' = timers
                   /\ reconnectTimeoutId' = reconnectTimeoutId
                   /\ reconnectAttemptCount' = reconnectAttemptCount
                   /\ explicitlyClosed' = explicitlyClosed
                   /\ ws' = ws
                   /\ DOMAIN sockets' = DOMAIN sockets ]_vars

\* An error event was handled while a reconnect timer was pending and the
\* manager held a transport: the timer and the reference are still there.
C17_Witness ==
    /\ task # 0
    /\ status = "error"
    /\ timers # {}
    /\ ws # 0

\* C18: disconnect() called while the manager holds no transport leaves the
\* status `disconnected`, whether it was `connecting` (waiting to reconnect),
\* `error` or already `disconnected`, and opens or closes nothing.
C18_DisconnectWithoutTransport ==
    [][ (disconnect /\ ws = 0)
            => /\ status' = "disconnected"
               /\ sockets' = sockets
               /\ timers' \subseteq timers ]_vars

\* disconnect() was called in `error` after the attempts were exhausted, with
\* no transport held: the status is `disconnected`.
C18_Witness ==
    /\ exhausted /\ userClosed
    /\ ws = 0 /\ sockets = <<>>
    /\ status = "disconnected"

\* C25: while the status is `connecting`, a transport is live, or a
\* reconnect timer is pending whose firing opens a transport (the manager
\* still holds a transport that is not open when the timer fires).
C25_ConnectingHasProgress ==
    (mounted /\ status = "connecting") =>
        \/ LiveSockets # {}
        \/ timers # {} /\ ws # 0 /\ ~IsOpen(ws)

\* C26: while the status is `connected`, the manager holds a transport and
\* that transport is open.
C26_ConnectedHoldsOpenTransport ==
    (mounted /\ status = "connected") => (ws # 0 /\ IsOpen(ws))

\* C27: at most one reconnect timer is pending.
C27_AtMostOneTimer == Cardinality(timers) <= 1

\* C28: the attempt counter stays within 0..reconnectAttempts; a step changes
\* it only by an open event, which sets it to 0, or by an unclean close below
\* the maximum, which adds 1; connect() and disconnect() leave it as it is.
C28_CounterFrame ==
    [][ /\ reconnectAttemptCount' \in 0..reconnectAttempts
        /\ \A s \in SocketIds :
              (TransportOpen(s) \/ TransportOpenInFlight(s)) => reconnectAttemptCount' = 0
        /\ \A s \in SocketIds, code \in CloseCodes :
              (UncleanClose(s, code) /\ reconnectAttemptCount < reconnectAttempts)
                  => reconnectAttemptCount' = reconnectAttemptCount + 1
        /\ reconnectAttemptCount' # reconnectAttemptCount =>
              \/ \E s \in SocketIds : TransportOpen(s) \/ TransportOpenInFlight(s)
              \/ \E s \in SocketIds, code \in CloseCodes :
                    UncleanClose(s, code) /\ reconnectAttemptCount < reconnectAttempts
        /\ ((\E url \in Urls : connect(url)) \/ disconnect)
              => reconnectAttemptCount' = reconnectAttemptCount ]_vars

\* All attempts were used, then the user disconnected: the counter still
\* stands at the maximum.
C28_Witness ==
    /\ reconnectAttemptCount = reconnectAttempts
    /\ userClosed
    /\ status = "disconnected"
    /\ ws = 0 /\ sockets = <<>>

\* ----------------------------------------------------------- Throttle: claims
\* C7: any two consecutive invocations of the wrapped function are at least
\* `delay` apart.
C7_AtMostOncePerDelay ==
    \A i \in 1..(Len(invocations) - 1) :
        invocations[i + 1].t - invocations[i].t >= delay

\* A trailing invocation made exactly `delay` after the one before it.
C7_Witness ==
    \E i \in 1..(Len(invocations) - 1) :
        /\ invocations[i + 1].t - invocations[i].t = delay
        /\ invocations[i + 1].args > invocations[i].args

ScenarioExpected == <<[t |-> 0, args |-> 1], [t |-> 20, args |-> 2], [t |-> 40, args |-> 3]>>

\* C8: with delay 20 and calls at 0, 5 and 40 the wrapped function is invoked
\* exactly three times: at 0 with the first call's arguments, at 20 with those
\* of the call at 5, at 40 with those of the call at 40, in either order of the
\* call and the timeout at 40.
C8_ScenarioThreeInvocations ==
    /\ Len(invocations) <= 3
    /\ \A i \in 1..Len(invocations) : invocations[i] = ScenarioExpected[i]
    /\ now > 0 => Len(invocations) >= 1
    /\ now > 20 => Len(invocations) >= 2
    /\ now > 40 => invocations = ScenarioExpected

\* The scenario has run to its end: three invocations, the throttle idle again.
C8_Witness ==
    /\ invocations = ScenarioExpected
    /\ ncalls = 3
    /\ timeoutId = NoTimeout
    /\ now > 60

\* C9: a call made during a cooldown invokes nothing, the arguments retained
\* are those of the latest call, and the trailing invocation carries exactly
\* the arguments of the last call of the window.
C9_CoalescedLastArgs ==
    [][ /\ (Call /\ timeoutId # NoTimeout) =>
              (invocations' = invocations /\ lastArgs' = ncalls')
        /\ (TimeoutFire /\ trailingCallScheduled) =>
              invocations' = Append(invocations, [t |-> now, args |-> ncalls]) ]_vars

\* Two calls were coalesced in one window and the trailing invocation carried
\* the later one's arguments.
C9_Witness ==
    /\ Len(invocations) >= 2
    /\ invocations[1].args = 1
    /\ invocations[2].args = 3

\* C19: a call made while no cooldown is running invokes the wrapped function
\* at once with that call's arguments and starts a cooldown that ends `delay`
\* later.
C19_IdleCallImmediate ==
    [][ (Call /\ timeoutId = NoTimeout)
            => /\ invocations' = Append(invocations, [t |-> now, args |-> ncalls + 1])
               /\ timeoutId' = now + delay
               /\ trailingCallScheduled' = trailingCallScheduled ]_vars

\* The first call was made some time after construction and invoked at once;
\* its cooldown of the longest delay is running.
C19_Witness ==
    /\ delay = MaxDelay
    /\ now > 0
    /\ ncalls = 1
    /\ invocations = <<[t |-> now, args |-> 1]>>
    /\ timeoutId = now + delay

\* C20: when the cooldown ends with a call coalesced, the wrapped function is
\* invoked at once with the latest call's arguments and a new cooldown of
\* `delay` starts; with none coalesced nothing is invoked and the throttle is
\* idle, with no trailing call left over.
C20_CooldownExpiry ==
    /\ [][ /\ (TimeoutFire /\ trailingCallScheduled)
                  => /\ invocations' = Append(invocations, [t |-> now, args |-> ncalls])
                     /\ timeoutId' = now + delay
                     /\ ~trailingCallScheduled'
           /\ (TimeoutFire /\ ~trailingCallScheduled)
                  => /\ invocations' = invocations
                     /\ timeoutId' = NoTimeout ]_vars
    /\ [](timeoutId = NoTimeout => ~trailingCallScheduled)

\* Calls 2 and 3 were coalesced, the trailing invocation carried call 3, and
\* the cooldown it started has ended with nothing coalesced: the throttle is idle.
C20_Witness ==
    /\ ncalls = 3
    /\ Len(invocations) = 2
    /\ invocations[1].args = 1
    /\ invocations[2].args = 3
    /\ timeoutId = NoTimeout

C22_CooldownCancelledOnTeardown ==
    [][ /\ RemoveListeners => timeoutId' = NoTimeout
        /\ ~listening => invocations' = invocations ]_vars

\* C29: the arguments of the last call are eventually invoked: after the n-th
\* call, either a later call is made or an invocation carries the arguments
\* of call n.
C29_LastArgsEventuallyInvoked ==
    \A n \in 1..MaxCalls :
        (ncalls = n) ~> (ncalls > n \/ \E i \in 1..Len(invocations) : invocations[i].args = n)

\* The last call came during a cooldown that an earlier trailing invocation
\* had started, and was invoked when that cooldown expired.
C29_Witness ==
    /\ ncalls = MaxCalls
    /\ delay = MaxDelay
    /\ Len(invocations) = 3
    /\ invocations[3].args = MaxCalls
    /\ invocations[2].args < MaxCalls - 1
    /\ invocations[3].t >= invocations[2].t + delay

\* C30: every invocation carries the arguments of a call made before it and
\* not invoked before, so invocations carry strictly later calls one after
\* the other and there are never more invocations than calls.
C30_NoCallInvokedTwice ==
    /\ Len(invocations) <= ncalls
    /\ \A i \in 1..Len(invocations) : invocations[i].args \in 1..ncalls
    /\ \A i, j \in 1..Len(invocations) : i < j => invocations[i].args < invocations[j].args

\* A call was invoked on the leading edge and its cooldown expired with no
\* call coalesced: nothing was invoked at the trailing edge.
C30_Witness ==
    /\ ncalls = 1
    /\ invocations = <<[t |-> 0, args |-> 1]>>
    /\ timeoutId = NoTimeout
    /\ now >= delay

\* -------------------------------------------------------------- Relay: claims
\* The messages session s has had forwarded, in sink order.
ForwardedOf(s) ==
    LET pick[i \in 0..Len(sink)] ==
            IF i = 0 THEN <<>>
            ELSE IF sink[i].session = s THEN Append(pick[i - 1], sink[i].msg)
                 ELSE pick[i - 1]
    IN pick[Len(sink)]

\* The messages of the well-formed envelopes among the first n frames of s.
EnvelopesOf(s, n) ==
    LET pick[i \in 0..n] ==
            IF i = 0 THEN <<>>
            ELSE IF sessions[s].sent[i].kind = "envelope"
                 THEN Append(pick[i - 1], sessions[s].sent[i].msg)
                 ELSE pick[i - 1]
    IN pick[n]

\* C10: a malformed frame is dropped and leaves its session open, so of a
\* malformed frame followed by a well-formed one exactly the well-formed one
\* is forwarded: what a session has had forwarded is always exactly the
\* well-formed envelopes among the frames handled so far.
C10_MalformedFrameIsolated ==
    /\ [](\A s \in 1..Len(sessions) : ForwardedOf(s) = EnvelopesOf(s, sessions[s].handled))
    /\ [][ \A s \in 1..Len(sessions) :
             (OnMessage(s) /\ sessions[s].sent[sessions[s].handled + 1].kind = "garbage")
                 => (sessions'[s].open /\ sink' = sink) ]_vars

\* A session sent a malformed frame then a well-formed one, both were handled,
\* one datagram was forwarded and the session is still open.
C10_Witness ==
    \E s \in 1..Len(sessions) :
        /\ Len(sessions[s].sent) = 2
        /\ sessions[s].sent[1].kind = "garbage"
        /\ sessions[s].sent[2].kind = "envelope"
        /\ sessions[s].handled = 2
        /\ sessions[s].open
        /\ ForwardedOf(s) = <<2>>

\* All frames session s has sent are well-formed envelopes.
AllWellFormed(s) == \A i \in 1..Len(sessions[s].sent) : sessions[s].sent[i].kind = "envelope"

\* C11: of concurrent sessions sending well-formed frames, the sink receives
\* each session's messages in the order that session sent them: what a
\* session has had forwarded is the sequence of its first `handled` messages,
\* whatever the interleaving with other sessions in the sink.
C11_PerSessionOrder ==
    \A s \in 1..Len(sessions) :
        AllWellFormed(s) => ForwardedOf(s) = [i \in 1..sessions[s].handled |-> i]

\* Two sessions each sent two well-formed frames, all four were forwarded,
\* and the two sessions' datagrams are interleaved in the sink.
C11_Witness ==
    /\ Len(sessions) = 2
    /\ \A s \in 1..2 : AllWellFormed(s) /\ Len(sessions[s].sent) = 2 /\ sessions[s].handled = 2
    /\ Len(sink) = 4
    /\ sink[1].session = 1 /\ sink[2].session = 2 /\ sink[3].session = 1 /\ sink[4].session = 2

\* ---------------------------------------------------- Relay process: claims
IsPrefix(p, q) == Len(p) <= Len(q) /\ p = SubSeq(q, 1, Len(p))

ShutdownStarted == shutdownLog # <<>>

\* C23 as stated: on a shutdown signal the relay first stops accepting
\* sessions, then closes the Datagram Sink, then closes the live sessions,
\* then releases the accept socket, and the bounded timeout makes every
\* shutdown end.
C23_ShutdownOrder ==
    /\ [](/\ IsPrefix(shutdownLog, <<"wss", "sink", "server">>)
          /\ ~serverBound => NoSessionOpen)
    /\ ShutdownStarted ~> (exit # "running")

\* C23 as the relay does it: on a shutdown signal the relay first closes the
\* Datagram Sink and then stops accepting sessions, both in the signal handler;
\* it releases the accept socket only when no session is open any more; and
\* it exits with 0 after that, or with 1 when the timeout fires first, so
\* that every shutdown ends.
C23_ShutdownSinkFirst ==
    /\ [](/\ IsPrefix(shutdownLog, <<"sink", "wss", "server">>)
          /\ ShutdownStarted => ~sinkOpen /\ ~accepting
          /\ ~serverBound => NoSessionOpen
          /\ exit = "exit0" => shutdownLog = <<"sink", "wss", "server">>
          /\ exit = "exit1" => ShutdownStarted)
    /\ ShutdownStarted ~> (exit # "running")

\* A session was still open with a frame waiting when the signal came, the
\* cleanup did not finish and the timeout ended the process.
C23_Witness ==
    /\ exit = "exit1"
    /\ shutdownLog = <<"sink", "wss">>
    /\ \E s \in 1..Len(sessions) : sessions[s].handled < Len(sessions[s].sent)

\* C24: a failure of the Datagram Sink is only logged. The sender's error
\* event changes no session and nothing of the process, and after any number
\* of failures a frame of any session is handled as before: a well-formed one
\* is decoded and handed to the sender, and no session is closed.
C24_SinkFailureOnlyLogged ==
    [][ /\ SinkError =>
              /\ sessions' = sessions /\ sink' = sink /\ relayLog' = relayLog
              /\ accepting' = accepting /\ sinkOpen' = sinkOpen /\ exit' = exit
        /\ \A s \in 1..Len(sessions) :
              OnMessage(s) =>
                  LET frame == sessions[s].sent[sessions[s].handled + 1]
                  IN /\ sessions'[s].open
                     /\ \A o \in 1..Len(sessions) : sessions'[o].open = sessions[o].open
                     /\ frame.kind = "envelope" =>
                            sink' = Append(sink, [session |-> s, msg |-> decode(frame).msg]) ]_vars

\* The sender failed after its first datagram; both sessions stayed open and
\* each had a later frame forwarded.
C24_Witness ==
    /\ Len(sinkErrors) > 0 /\ sinkErrors[1] = 1
    /\ Len(sessions) = 2
    /\ \A s \in 1..2 : sessions[s].open
    /\ Len(sink) = 3
    /\ sink[2].session # sink[3].session

\* ------------------------------------------------------------- Codec: claims
\* C12: for every valid message m, unpack(pack(m)) has the address and the
\* arguments of m, and the envelope the relay re-packs and sends to the sink
\* unpacks to the same address and the same arguments in the same order.
C12_RoundTrip ==
    /\ codecStep \in {"unpacked", "forwarded"} =>
          unpackedMessage = [ok |-> TRUE, address |-> oscMessage.address,
                             args |-> oscMessage.args]
    /\ codecStep = "forwarded" =>
          unpack(datagram) = [ok |-> TRUE, address |-> oscMessage.address,
                              args |-> oscMessage.args]

\* A message with a negative float and a string that needs a full word of
\* padding went through the client and the relay to the sink.
C12_Witness ==
    /\ codecStep = "forwarded"
    /\ oscMessage.address = <<47, 104, 97, 110, 100, 47, 112>>
    /\ oscMessage.args = <<[type |-> "float", value |-> [m |-> -5, e |-> -1]],
                           [type |-> "string", value |-> <<97, 98, 99, 100>>]>>
    /\ Len(datagram) = 24
    /\ SubSeq(datagram, 13, 16) = <<192, 32, 0, 0>>

====
